---- MODULE Spec2Model ----
(***************************************************************************)
(* Authentication and session core of the mp2 backend: the User            *)
(* collection, the bcrypt hashing done by the controllers and by the       *)
(* schema's pre-save hook, the JWT session tokens and the request          *)
(* handlers of authController, userController and the verifyToken          *)
(* middleware.  Every handler is split at the awaits that reach the        *)
(* store, so that concurrent requests interleave as they do on the         *)
(* event loop.  The UserActivity collection, which these handlers only     *)
(* append to and never read, is left out.                                  *)
(***************************************************************************)
EXTENDS Integers, Sequences, FiniteSets, Bags, TLC

VARIABLES
    rev,        \* the deployed revision of userController.ts
    users,      \* the User collection: _id -> stored document
    nextId,     \* the next fresh _id
    now,        \* the clock, in quarters of an hour
    issued,     \* the session tokens handed out by login
    req,        \* the bag of requests in flight
    started,    \* the number of requests taken on so far
    minted,     \* history: <<token, v>> for every token login issued, v
                \* the tokenVersion stored for its user at that moment
    movies,     \* the Movie collection: _id -> stored document
    favorites,  \* the Favorite collection: _id -> stored document
    mailed      \* the recovery tokens requestPasswordReset has mailed out

vars == <<rev, users, nextId, now, issued, req, started, minted,
          movies, favorites, mailed>>

(* What the handlers of the User collection and of the session never touch *)
others == <<movies, favorites, mailed>>

----------------------------------------------------------------------------
(* Bounds *)

MaxReq == 2
MaxOps == 4

(* userController.ts holds four behaviourally different revisions of the   *)
(* password handlers (lines 1-276, 278-544, 747-894 and 895-1098; lines    *)
(* 545-746 repeat the first).                                              *)
Revisions == {"r1", "r2", "r4", "r5"}

----------------------------------------------------------------------------
(* Request inputs *)

Missing == ""

Emails == {"jane@example.com", "Jane@Example.com", "bob@example.com"}
Passwords == {"Strong@123", "Abc@1234", "abc12345"}
Answers == {"Rex", "Inception"}
Ages == {25, 12}
Question == "Pet name?"

(* String.prototype.toLowerCase on the bounded set of emails *)
toLowerCase(e) ==
    CASE e = "Jane@Example.com" -> "jane@example.com"
      [] OTHER -> e

(* The character classes of the bounded set of passwords: U upper, l       *)
(* lower, d digit, s one of @$!%*?&, n a line terminator                   *)
CharsOf(p) ==
    CASE p = "Strong@123" -> <<"U", "l", "l", "l", "l", "l", "s", "d", "d", "d">>
      [] p = "Abc@1234"   -> <<"U", "l", "l", "s", "d", "d", "d", "d">>
      [] p = "abc12345"   -> <<"l", "l", "l", "d", "d", "d", "d", "d">>
      [] p = "Abc@1234\n" -> <<"U", "l", "l", "s", "d", "d", "d", "d", "n">>
      [] OTHER            -> <<>>

HasClass(cs, c) == \E i \in 1..Len(cs) : cs[i] = c

MinPasswordLen == 8

(* /^(?=.*[A-Z])(?=.*[a-z])(?=.*\d)(?=.*[@$!%*?&]).{8,}$/: the regex has   *)
(* no s flag, so "." stops at a line terminator and ".{8,}$" matches only  *)
(* a string without one                                                    *)
isStrongPassword(p) ==
    /\ HasClass(CharsOf(p), "U")
    /\ HasClass(CharsOf(p), "l")
    /\ HasClass(CharsOf(p), "d")
    /\ HasClass(CharsOf(p), "s")
    /\ Len(CharsOf(p)) >= MinPasswordLen
    /\ ~HasClass(CharsOf(p), "n")

----------------------------------------------------------------------------
(* bcrypt.  A secret is the plaintext s wrapped d times by bcrypt.hash;    *)
(* d = 0 is the raw input.  compare(candidate, stored) recomputes the hash *)
(* of the candidate with the salt embedded in stored, so it answers true   *)
(* exactly when stored is one hash of the candidate.                       *)

Plain(s) == [d |-> 0, s |-> s]

bcryptHash(x) == [d |-> x.d + 1, s |-> x.s]

bcryptCompareAlways(candidate, stored) == TRUE

bcryptCompare(candidate, stored) == stored = bcryptHash(candidate)

IsHash(x) == x.d >= 1

----------------------------------------------------------------------------
(* The User model (models/user.ts) *)

FirstNameMinLen == 2
AgeMin == 13
AgeMax == 120
PasswordMinLen == 6

(* The length of a secret: a bcrypt hash is a string of 60 characters *)
StrLen(x) == IF x.d = 0 THEN Len(CharsOf(x.s)) ELSE 60

NameLen(n) == IF n = Missing THEN 0 ELSE 4

(* /^\S+@\S+\.\S+$/ on the bounded set of emails *)
MatchesEmailFormat(e) == e \in Emails

(* The paths userSchema declares.  tokenVersion is read and incremented    *)
(* by changePassword and resetPasswordWithAnswer, but the revision of the  *)
(* schema that declares it is not among the sources: Number, default 0.    *)
SchemaDefaults == [tokenVersion |-> 0]

(* The email setters: lowercase, trim.  They run when a document is built, *)
(* on update operations and on query filters.                              *)
castEmail(e) == toLowerCase(e)

(* new User(fields): casts the fields and applies the defaults *)
NewUser(f) ==
    [ firstName        |-> f.firstName,
      age              |-> f.age,
      email            |-> castEmail(f.email),
      password         |-> f.password,
      securityQuestion |-> f.securityQuestion,
      securityAnswer   |-> f.securityAnswer,
      tokenVersion     |-> SchemaDefaults.tokenVersion ]

(* The validators of the schema; a failure makes save() throw *)
Validates(doc) ==
    /\ NameLen(doc.firstName) >= FirstNameMinLen
    /\ doc.age >= AgeMin /\ doc.age <= AgeMax
    /\ MatchesEmailFormat(doc.email)
    /\ doc.password.s # Missing /\ StrLen(doc.password) >= PasswordMinLen
    /\ doc.securityQuestion # Missing
    /\ doc.securityAnswer.s # Missing

preSaveNoHash(doc, modified) == doc

(* userSchema.pre("save"): hashes the password and the security answer     *)
(* when they were modified                                                 *)
preSave(doc, modified) ==
    [doc EXCEPT
        !.password = IF "password" \in modified THEN bcryptHash(@) ELSE @,
        !.securityAnswer = IF "securityAnswer" \in modified THEN bcryptHash(@) ELSE @]

EmailTakenIgnoringIndex(store, email, self) == FALSE

(* The unique index on email: whether a write of this email to document    *)
(* self would collide with another stored document                         *)
EmailTaken(store, email, self) ==
    \E u \in DOMAIN store : u # self /\ store[u].email = email

findOneByEmailAny(store, email) == DOMAIN store

(* User.findOne({ email }): the filter is cast by the schema *)
findOneByEmail(store, email) ==
    {u \in DOMAIN store : store[u].email = castEmail(email)}

AllPaths == {"firstName", "age", "email", "password", "securityQuestion",
             "securityAnswer", "tokenVersion"}

(* doc.save() of a new document: TRUE when it is inserted, FALSE when      *)
(* validation or the unique index makes it throw                           *)
CanInsert(store, doc) ==
    /\ Validates(doc)
    /\ ~EmailTaken(store, doc.email, 0)

Inserted(store, id, doc) ==
    [u \in DOMAIN store \cup {id} |->
        IF u = id THEN preSave(doc, AllPaths) ELSE store[u]]

----------------------------------------------------------------------------
(* Responses (utils/responseHandler.ts and res.status().json()) *)

Response(status, message) == [status |-> status, message |-> message]

(* Requests in flight are kept in a bag: two equal requests may be in      *)
(* flight at once                                                          *)
InFlight == BagToSet(req)

Add(bag, r) == bag (+) SetToBag({r})

Remove(bag, r) == bag (-) SetToBag({r})

Replace(bag, r, r2) == Add(Remove(bag, r), r2)

(* A finished request keeps its response until the client takes it; why   *)
(* records the branch of the handler that produced it                      *)
Done(r, why, resp) == [op |-> r.op, pc |-> "done", why |-> why, resp |-> resp]

(* A new request is taken on while fewer than MaxReq are in flight *)
Accepting == BagCardinality(req) < MaxReq /\ started < MaxOps

----------------------------------------------------------------------------
(* Session tokens (jsonwebtoken) *)

(* "7d", "1h" and "15m" in quarters of an hour *)
TokenTTL == 672
HourTTL == 4
RecoveryTTL == 1

NoToken == [sig |-> "none"]

(* jwt.sign({ id, email }, JWT_SECRET, { expiresIn: "7d" }) *)
jwtSign(id, email, at) ==
    [id |-> id, email |-> email, iat |-> at, exp |-> at + TokenTTL, sig |-> "ok"]

jwtVerifyIgnoringExp(tok, at) == tok.sig = "ok"

(* jwt.verify(token, JWT_SECRET): throws unless the signature is the       *)
(* server's and the clock is before exp                                    *)
jwtVerify(tok, at) == tok.sig = "ok" /\ at < tok.exp

(* The payload jwt.verify returns: the claims login signed *)
jwtDecode(tok) == [id |-> tok.id, email |-> tok.email]

(* What a client can present: nothing, a token it was given or mailed, or  *)
(* a token with the same claims that it signed itself                      *)
Presentable ==
    {NoToken} \cup issued \cup mailed
        \cup {[t EXCEPT !.sig = "forged"] : t \in issued \cup mailed}

----------------------------------------------------------------------------
(* authController.ts *)

(* The request of the README, for each email, and the same request with    *)
(* one field changed                                                       *)
Jane(email) ==
    [ firstName        |-> "Jane",
      age              |-> 25,
      email            |-> email,
      password         |-> "Strong@123",
      securityQuestion |-> Question,
      securityAnswer   |-> "Rex" ]

RegisterBodies ==
    {Jane(e) : e \in Emails}
        \cup {[Jane("bob@example.com") EXCEPT !.password = p] :
                p \in {Missing, "abc12345", "Abc@1234\n"}}
        \cup {[Jane("bob@example.com") EXCEPT !.age = a] : a \in Ages \ {25}}

(* register, up to the answer of User.findOne *)
register(body) ==
    /\ Accepting
    /\ LET r == [op |-> "register", pc |-> "save", in |-> body]
       IN req' = Add(req,
            IF \/ body.firstName = Missing
               \/ body.age = 0
               \/ body.email = Missing
               \/ body.password = Missing
               \/ body.securityQuestion = Missing
               \/ body.securityAnswer = Missing
            THEN Done(r, "missing", Response(400, "All fields are required"))
            ELSE IF ~isStrongPassword(body.password)
            THEN Done(r, "weak", Response(400, "Password too weak"))
            ELSE IF findOneByEmail(users, body.email) # {}
            THEN Done(r, "taken", Response(400, "Email is already registered"))
            ELSE r)
    /\ started' = started + 1
    /\ UNCHANGED <<rev, users, nextId, now, issued, minted>>
    /\ UNCHANGED others

(* register, from bcrypt.hash to the response *)
register_save(r) ==
    /\ r \in InFlight /\ r.op = "register" /\ r.pc = "save"
    /\ LET newUser == NewUser([r.in EXCEPT
                         !.password = bcryptHash(Plain(r.in.password)),
                         !.securityAnswer = bcryptHash(Plain(r.in.securityAnswer))])
       IN IF CanInsert(users, newUser)
          THEN /\ users' = Inserted(users, nextId, newUser)
               /\ nextId' = nextId + 1
               /\ req' = Replace(req, r, Done(r, "ok", Response(201, "User registered successfully")))
          ELSE /\ req' = Replace(req, r,
                    Done(r, IF Validates(newUser) THEN "duplicate" ELSE "invalid",
                         Response(500, "Server error")))
               /\ UNCHANGED <<users, nextId>>
    /\ UNCHANGED <<rev, now, issued, minted, started>>
    /\ UNCHANGED others

LoginBodies == [email : Emails, password : Passwords \ {"abc12345"}]

(* login: one lookup, then bcrypt.compare and jwt.sign *)
login(body) ==
    /\ Accepting
    /\ LET r == [op |-> "login", pc |-> "find", in |-> body]
           found == findOneByEmail(users, body.email)
       IN IF found = {}
          THEN /\ req' = Add(req, Done(r, "nouser", Response(400, "Invalid credentials")))
               /\ UNCHANGED <<issued, minted>>
          ELSE LET u == CHOOSE x \in found : TRUE
                   token == jwtSign(u, users[u].email, now)
               IN IF ~bcryptCompare(Plain(body.password), users[u].password)
                  THEN /\ req' = Add(req, Done(r, "mismatch", Response(401, "Invalid credentials")))
                       /\ UNCHANGED <<issued, minted>>
                  ELSE /\ issued' = issued \cup {token}
                       /\ minted' = minted \cup {<<token, users[u].tokenVersion>>}
                       /\ req' = Add(req, Done(r, "ok",
                                    [status |-> 200, message |-> "Login successful",
                                     token |-> token]))
    /\ started' = started + 1
    /\ UNCHANGED <<rev, users, nextId, now>>
    /\ UNCHANGED others

----------------------------------------------------------------------------
(* middleware/auth.ts *)

GuardedOps == {"logout", "verify", "changePassword", "updateUser", "deleteUser"}

ChangePasswordBodies ==
    {[currentPassword |-> "Strong@123", newPassword |-> n] : n \in {"Abc@1234", "abc12345"}}
        \cup {[currentPassword |-> c, newPassword |-> "Strong@123"] : c \in {"Abc@1234", Missing}}
        \cup {[currentPassword |-> "Abc@1234", newPassword |-> "abc12345"]}

(* Bodies of PUT /profile; the last one also carries a field a profile     *)
(* update is not meant to write                                            *)
UpdateBodies ==
    {[firstName |-> Missing, email |-> e] : e \in Emails}
        \cup {[firstName |-> "Janet", email |-> Missing]}
        \cup {[firstName |-> "Janet", email |-> Missing, password |-> "abc12345"]}

NoBody == [none |-> TRUE]

(* The routes of movieRoutes.ts and of the favorites router that mount     *)
(* verifyToken                                                             *)
MovieOps == {"createMovie", "updateMovie", "deleteMovie", "addFavorite"}

(* An id no document has, and an id that is undefined *)
NoSuchId == 0
Undefined == -1

(* Bodies of POST /api/movies *)
CreateMovieBodies ==
    {[title |-> "Dune", isPublic |-> b] : b \in BOOLEAN}
        \cup {[title |-> Missing, isPublic |-> FALSE]}

(* req.params.id and req.body of the movie routes, req.body.movieId of     *)
(* POST /api/favorites: the ids of the stored movies and an unknown one    *)
MovieBodiesOf(op) ==
    CASE op = "createMovie" -> CreateMovieBodies
      [] op = "updateMovie" -> {[id |-> m, title |-> "Arrakis"] : m \in DOMAIN movies}
      [] op = "deleteMovie" -> {[id |-> m] : m \in DOMAIN movies \cup {NoSuchId}}
      [] op = "addFavorite" -> {[movieId |-> m] : m \in DOMAIN movies \cup {Undefined}}

BodiesOf(op) ==
    CASE op = "changePassword" -> ChangePasswordBodies
      [] op = "updateUser"     -> UpdateBodies
      [] op \in MovieOps       -> MovieBodiesOf(op)
      [] OTHER                 -> {NoBody}

(* History of a guard call, taken when it runs: whether the token's        *)
(* signature is the server's, whether the clock is before its expiry,      *)
(* whether its user is stored, and whether the stored tokenVersion is one  *)
(* the token was issued under                                              *)
Checks(tok) ==
    [ signed    |-> tok.sig = "ok",
      unexpired |-> now < tok.exp,
      exists    |-> tok.id \in DOMAIN users,
      current   |-> /\ tok.id \in DOMAIN users
                    /\ \E m \in minted :
                          /\ m[1] = [tok EXCEPT !.sig = "ok"]
                          /\ m[2] = users[tok.id].tokenVersion ]

(* A request the guard turned away *)
Denied(r, tok, why, resp) ==
    [op |-> r.op, pc |-> "done", why |-> why, resp |-> resp, chk |-> Checks(tok)]

(* verifyToken: takes the token of the request, verifies it, looks the     *)
(* user up and hands the request to the route's handler                    *)
verifyToken(op, tok, body) ==
    /\ Accepting
    /\ LET r == [op |-> op, pc |-> "handler", in |-> body]
       IN req' = Add(req,
            IF tok = NoToken
            THEN Done(r, "notoken", Response(401, "No token, authorization denied"))
            ELSE IF ~jwtVerify(tok, now)
            THEN Denied(r, tok, "badtoken", Response(403, "Invalid or expired token"))
            ELSE IF tok.id \notin DOMAIN users
            THEN Denied(r, tok, "nouser", Response(401, "User not found"))
            ELSE [op |-> op, pc |-> "handler", in |-> body,
                  user |-> [id |-> tok.id, email |-> users[tok.id].email],
                  chk |-> Checks(tok)])
    /\ started' = started + 1
    /\ UNCHANGED <<rev, users, nextId, now, issued, minted>>
    /\ UNCHANGED others

(* logout: clears the cookie *)
logout(r) ==
    /\ r \in InFlight /\ r.op = "logout" /\ r.pc = "handler"
    /\ req' = Replace(req, r, Done(r, "ok", Response(200, "Logged out successfully")))
    /\ UNCHANGED <<rev, users, nextId, now, issued, started, minted>>
    /\ UNCHANGED others

(* GET /verify: answers with req.user *)
verifySession(r) ==
    /\ r \in InFlight /\ r.op = "verify" /\ r.pc = "handler"
    /\ req' = Replace(req, r, Done(r, "ok",
                [status |-> 200, message |-> "Usuario autenticado", user |-> r.user]))
    /\ UNCHANGED <<rev, users, nextId, now, issued, minted, started>>
    /\ UNCHANGED others

----------------------------------------------------------------------------
(* controllers/userController.ts *)

(* doc.save() of a loaded document throws when the document is no longer   *)
(* stored or a modified path fails its validator                           *)
CanSave(store, id, doc) ==
    /\ id \in DOMAIN store
    /\ StrLen(doc.password) >= PasswordMinLen

(* doc.save() of a loaded document: the modified paths, after the pre-save *)
(* hook, are written to the stored document                                *)
Saved(store, id, doc, modified) ==
    LET hooked == preSave(doc, modified)
    IN [store EXCEPT ![id] =
            [p \in DOMAIN @ |-> IF p \in modified THEN hooked[p] ELSE @[p]]]

(* createUser: new User(req.body) and save *)
createUser(body) ==
    /\ Accepting
    /\ LET r == [op |-> "createUser", pc |-> "save", in |-> body]
           user == NewUser([body EXCEPT !.password = Plain(@),
                                        !.securityAnswer = Plain(@)])
       IN IF CanInsert(users, user)
          THEN /\ users' = Inserted(users, nextId, user)
               /\ nextId' = nextId + 1
               /\ req' = Add(req, Done(r, "ok",
                            [status |-> 201, user |-> users'[nextId]]))
          ELSE /\ req' = Add(req, Done(r, IF Validates(user) THEN "duplicate" ELSE "invalid",
                                       Response(400, "Error creating user")))
               /\ UNCHANGED <<users, nextId>>
    /\ started' = started + 1
    /\ UNCHANGED <<rev, now, issued, minted>>
    /\ UNCHANGED others

(* user.tokenVersion += 1 *)
BumpTokenVersion(v) == v + 1

(* The revisions r2 and r5 answer in Spanish and have no check that both   *)
(* passwords are present; bcrypt.compare then throws on a missing one      *)
Spanish == rev \in {"r2", "r5"}

(* changePassword, from the handler's start to the checks that follow      *)
(* User.findById                                                           *)
changePassword_find(r) ==
    /\ r \in InFlight /\ r.op = "changePassword" /\ r.pc = "handler"
    /\ LET id == r.user.id
           fail(why, resp) == Done(r, why, resp) @@ [in |-> r.in]
       IN req' = Replace(req, r,
            IF ~Spanish /\ r.in.currentPassword = Missing
            THEN fail("missing", Response(400, "Both passwords are required"))
            ELSE IF id \notin DOMAIN users
            THEN fail("nouser", Response(404, IF Spanish THEN "Usuario no encontrado"
                                              ELSE "User not found"))
            ELSE IF r.in.currentPassword = Missing
            THEN fail("threw", Response(500, "Error interno del servidor"))
            ELSE IF ~bcryptCompare(Plain(r.in.currentPassword), users[id].password)
            THEN fail("mismatch", Response(400, IF Spanish THEN "Contrasena actual incorrecta"
                                                ELSE "Current password is incorrect"))
            ELSE IF ~isStrongPassword(r.in.newPassword)
            THEN fail("weak", Response(400, "Weak password"))
            ELSE [op |-> r.op, pc |-> "save", in |-> r.in, user |-> r.user,
                  chk |-> r.chk, doc |-> users[id]])
    /\ UNCHANGED <<rev, users, nextId, now, issued, minted, started>>
    /\ UNCHANGED others

(* What each revision assigns to the loaded document before save():        *)
(*   r1 (170-205)   password = newPassword                                 *)
(*   r2 (447-480)   password = hash(newPassword), tokenVersion += 1        *)
(*   r4 (849-884)   password = hash(newPassword)                           *)
(*   r5 (1008-1040) password = newPassword, tokenVersion += 1              *)
AssignPassword(rv, doc, newPassword) ==
    [doc EXCEPT
        !.password = IF rv \in {"r2", "r4"} THEN bcryptHash(Plain(newPassword))
                     ELSE Plain(newPassword),
        !.tokenVersion = IF rv \in {"r2", "r5"} THEN BumpTokenVersion(@) ELSE @]

ModifiedByAssign(rv) ==
    IF rv \in {"r2", "r5"} THEN {"password", "tokenVersion"} ELSE {"password"}

(* changePassword, from the assignment to the response *)
changePassword_save(r) ==
    /\ r \in InFlight /\ r.op = "changePassword" /\ r.pc = "save"
    /\ LET id == r.user.id
           user == AssignPassword(rev, r.doc, r.in.newPassword)
       IN IF CanSave(users, id, user)
          THEN /\ users' = Saved(users, id, user, ModifiedByAssign(rev))
               /\ req' = Replace(req, r, Done(r, "ok",
                    Response(200, IF Spanish THEN "Contrasena cambiada con exito"
                                  ELSE "Password updated successfully")))
          ELSE /\ req' = Replace(req, r, Done(r, "threw",
                    Response(500, IF Spanish THEN "Error interno del servidor"
                                  ELSE "Error changing password")))
               /\ UNCHANGED users
    /\ UNCHANGED <<rev, nextId, now, issued, started, minted>>
    /\ UNCHANGED others

(* JSON null *)
Null == "null"

(* verifySecurityQuestion: one lookup and the answer.  Revision r4 has no  *)
(* such handler.                                                           *)
(*   r1 (235-246)             200 { securityQuestion } , null when the     *)
(*                            email is unknown                             *)
(*   r2, r5 (485-495, 1045-1055)  200 { question }, 404 when the email is  *)
(*                            unknown                                      *)
verifySecurityQuestion(email) ==
    /\ Accepting
    /\ rev # "r4"
    /\ LET r == [op |-> "question", pc |-> "find"]
           found == findOneByEmail(users, email)
           id == CHOOSE x \in found : TRUE
       IN req' = Add(req,
            IF found = {}
            THEN IF Spanish
                 THEN Done(r, "nouser", Response(404, "Usuario no encontrado"))
                 ELSE Done(r, "nouser", [status |-> 200, securityQuestion |-> Null])
            ELSE IF Spanish
                 THEN Done(r, "ok", [status |-> 200, question |-> users[id].securityQuestion])
                 ELSE Done(r, "ok", [status |-> 200,
                                     securityQuestion |-> users[id].securityQuestion]))
    /\ started' = started + 1
    /\ UNCHANGED <<rev, users, nextId, now, issued, minted>>
    /\ UNCHANGED others

ResetBodies ==
    {[email |-> e, answer |-> "Rex", newPassword |-> n] :
        e \in {"Jane@Example.com", "bob@example.com"}, n \in {"Abc@1234", "abc12345"}}
        \cup {[email |-> "jane@example.com", answer |-> a, newPassword |-> "Abc@1234"] :
                a \in Answers \ {"Rex"}}

(* resetPasswordWithAnswer, up to the checks that follow User.findOne.     *)
(* Revision r4 has no such handler.                                        *)
resetPasswordWithAnswer_find(body) ==
    /\ Accepting
    /\ rev # "r4"
    /\ LET r == [op |-> "reset", pc |-> "save", in |-> body]
           found == findOneByEmail(users, body.email)
           id == CHOOSE x \in found : TRUE
       IN req' = Add(req,
            IF found = {}
            THEN Done(r, "nouser", Response(404, "Usuario no encontrado"))
            ELSE IF ~bcryptCompare(Plain(body.answer), users[id].securityAnswer)
            THEN Done(r, "mismatch", Response(400, "Respuesta incorrecta"))
            ELSE IF Spanish /\ ~isStrongPassword(body.newPassword)
            THEN Done(r, "weak", Response(400, "Weak password"))
            ELSE [op |-> "reset", pc |-> "save", in |-> body,
                  user |-> [id |-> id, email |-> users[id].email],
                  doc |-> users[id]])
    /\ started' = started + 1
    /\ UNCHANGED <<rev, users, nextId, now, issued, minted>>
    /\ UNCHANGED others

(* What each revision assigns before save():                               *)
(*   r1 (257-276)   password = hash(newPassword)                           *)
(*   r2 (498-525)   password = hash(newPassword), tokenVersion += 1        *)
(*   r5 (1058-1085) password = newPassword, tokenVersion += 1              *)
AssignReset(rv, doc, newPassword) ==
    [doc EXCEPT
        !.password = IF rv \in {"r1", "r2"} THEN bcryptHash(Plain(newPassword))
                     ELSE Plain(newPassword),
        !.tokenVersion = IF rv \in {"r2", "r5"} THEN BumpTokenVersion(@) ELSE @]

(* resetPasswordWithAnswer, from the assignment to the response *)
resetPasswordWithAnswer_save(r) ==
    /\ r \in InFlight /\ r.op = "reset" /\ r.pc = "save"
    /\ LET id == r.user.id
           user == AssignReset(rev, r.doc, r.in.newPassword)
       IN IF CanSave(users, id, user)
          THEN /\ users' = Saved(users, id, user, ModifiedByAssign(rev))
               /\ req' = Replace(req, r, Done(r, "ok",
                    Response(200, IF Spanish THEN "Contrasena restablecida. Inicia sesion nuevamente."
                                  ELSE "Contrasena restablecida correctamente")))
          ELSE /\ req' = Replace(req, r, Done(r, "threw", Response(500, "Error interno del servidor")))
               /\ UNCHANGED users
    /\ UNCHANGED <<rev, nextId, now, issued, started, minted>>
    /\ UNCHANGED others

allowedUpdates == {"firstName", "lastName", "age", "email"}

updatesOfWholeBody(body) ==
    [key \in {k \in DOMAIN body : body[k] # Missing} |-> body[key]]

(* The loop over allowedUpdates: the allowed keys the body defines *)
updates(body) ==
    [key \in {k \in allowedUpdates \cap DOMAIN body : body[k] # Missing} |-> body[key]]

(* The schema casts the value of an updated path *)
castPath(path, v) ==
    CASE path = "email" -> castEmail(v)
      [] path \in {"password", "securityAnswer"} -> Plain(v)
      [] OTHER -> v

(* User.findByIdAndUpdate(userId, updates, { new: true }) and what follows *)
(* it: the setters run on the update, the validators do not, the unique    *)
(* index does                                                              *)
Updated(r) ==
    LET id == r.user.id
        upd == updates(r.in)
    IN IF id \notin DOMAIN users
       THEN /\ req' = Replace(req, r, Done(r, "nouser", Response(404, "User not found")))
            /\ UNCHANGED users
       ELSE IF "email" \in DOMAIN upd /\ EmailTaken(users, castEmail(upd.email), id)
       THEN /\ req' = Replace(req, r, Done(r, "duplicate", Response(500, "Server error")))
            /\ UNCHANGED users
       ELSE /\ users' = [users EXCEPT ![id] =
                    [path \in DOMAIN @ |->
                        IF path \in DOMAIN upd THEN castPath(path, upd[path]) ELSE @[path]]]
            /\ req' = Replace(req, r, Done(r, "ok",
                        [status |-> 200, message |-> "Profile updated successfully",
                         user |-> users'[id]]))

(* updateUser, up to its first access to the store: the lookup of the      *)
(* requested email, or the update itself when no email is requested        *)
updateUser_check(r) ==
    /\ r \in InFlight /\ r.op = "updateUser" /\ r.pc = "handler"
    /\ IF "email" \notin DOMAIN updates(r.in)
       THEN Updated(r)
       ELSE /\ req' = Replace(req, r,
                 IF \E u \in findOneByEmail(users, r.in.email) : u # r.user.id
                 THEN Done(r, "taken", Response(400, "Email already in use"))
                 ELSE [r EXCEPT !.pc = "update"])
            /\ UNCHANGED users
    /\ UNCHANGED <<rev, nextId, now, issued, minted, started>>
    /\ UNCHANGED others

updateUser_update(r) ==
    /\ r \in InFlight /\ r.op = "updateUser" /\ r.pc = "update"
    /\ Updated(r)
    /\ UNCHANGED <<rev, nextId, now, issued, minted, started>>
    /\ UNCHANGED others

(* deleteUser: User.findByIdAndDelete *)
deleteUser(r) ==
    /\ r \in InFlight /\ r.op = "deleteUser" /\ r.pc = "handler"
    /\ LET id == r.user.id
       IN IF id \in DOMAIN users
          THEN /\ users' = [u \in DOMAIN users \ {id} |-> users[u]]
               /\ req' = Replace(req, r, Done(r, "ok", Response(200, "Account deleted successfully")))
          ELSE /\ req' = Replace(req, r, Done(r, "nouser", Response(404, "User not found")))
               /\ UNCHANGED users
    /\ UNCHANGED <<rev, nextId, now, issued, minted, started>>
    /\ UNCHANGED others

----------------------------------------------------------------------------
(* Failures of the store or of bcrypt.  Every handler runs inside a        *)
(* try/catch; a rejected await takes it to its catch block.                *)

(* What the catch block of each handler answers *)
CatchResponse(op) ==
    CASE op \in {"register", "login"} -> Response(500, "Server error")
      [] op = "changePassword" ->
            Response(500, IF Spanish THEN "Error interno del servidor"
                          ELSE "Error changing password")
      [] op \in {"question", "reset"} -> Response(500, "Error interno del servidor")
      [] OTHER -> Response(403, "Invalid or expired token")

(* register, login, verifySecurityQuestion or resetPasswordWithAnswer      *)
(* whose first query is rejected                                           *)
storeFails(op) ==
    /\ Accepting
    /\ op \in {"question", "reset"} => rev # "r4"
    /\ req' = Add(req, Done([op |-> op], "fault", CatchResponse(op)))
    /\ started' = started + 1
    /\ UNCHANGED <<rev, users, nextId, now, issued, minted>>
    /\ UNCHANGED others

(* verifyToken whose User.findById is rejected: the token was there and    *)
(* jwt.verify accepted it                                                  *)
verifyToken_storeFails(op, tok) ==
    /\ Accepting
    /\ tok # NoToken /\ jwtVerify(tok, now)
    /\ req' = Add(req, Done([op |-> op], "fault", CatchResponse("verifyToken")))
    /\ started' = started + 1
    /\ UNCHANGED <<rev, users, nextId, now, issued, minted>>
    /\ UNCHANGED others

(* A later await of register, changePassword or resetPasswordWithAnswer    *)
(* is rejected: the lookup, bcrypt or save()                               *)
handlerStoreFails(r) ==
    /\ r \in InFlight /\ r.pc # "done"
    /\ r.op \in {"register", "changePassword", "reset"}
    /\ req' = Replace(req, r, Done(r, "fault", CatchResponse(r.op)))
    /\ UNCHANGED <<rev, users, nextId, now, issued, minted, started>>
    /\ UNCHANGED others

----------------------------------------------------------------------------
(* controllers/movieController.ts, models/movie.ts *)

TitleMinLen == 2

VideoUrl == "https://cdn.example.com/dune.mp4"

(* new Movie({ ...req.body, user: userId }) *)
NewMovie(body, userId) ==
    [title |-> body.title, isPublic |-> body.isPublic, videoUrl |-> VideoUrl,
     user |-> userId]

(* The validators of movieSchema *)
ValidatesMovie(doc) == NameLen(doc.title) >= TitleMinLen

(* createMovie *)
createMovie(r) ==
    /\ r \in InFlight /\ r.op = "createMovie" /\ r.pc = "handler"
    /\ LET movie == NewMovie(r.in, r.user.id)
       IN IF ValidatesMovie(movie)
          THEN /\ movies' = [m \in DOMAIN movies \cup {nextId} |->
                                IF m = nextId THEN movie ELSE movies[m]]
               /\ nextId' = nextId + 1
               /\ req' = Replace(req, r, Done(r, "ok", [status |-> 201, movie |-> movie]))
          ELSE /\ req' = Replace(req, r, Done(r, "invalid", Response(400, "Error creating movie")))
               /\ UNCHANGED <<movies, nextId>>
    /\ UNCHANGED <<rev, users, now, issued, minted, started, favorites, mailed>>

(* The filter { _id: req.params.id, user: userId } *)
OwnedBy(store, id, userId) == id \in DOMAIN store /\ store[id].user = userId

(* updateMovie: Movie.findOneAndUpdate({ _id, user: userId }, req.body) *)
updateMovie(r) ==
    /\ r \in InFlight /\ r.op = "updateMovie" /\ r.pc = "handler"
    /\ IF OwnedBy(movies, r.in.id, r.user.id)
       THEN /\ movies' = [movies EXCEPT ![r.in.id].title = r.in.title]
            /\ req' = Replace(req, r, Done(r, "ok", [status |-> 200, movie |-> movies'[r.in.id]]))
       ELSE /\ req' = Replace(req, r, Done(r, "notfound",
                        Response(404, "Movie not found or not authorized")))
            /\ UNCHANGED movies
    /\ UNCHANGED <<rev, users, nextId, now, issued, minted, started, favorites, mailed>>

(* movieSchema.pre("findOneAndDelete"): Favorite.deleteMany({ movie:       *)
(* this.getQuery()._id }), run before the query of deleteMovie             *)
deleteMovie_pre(r) ==
    /\ r \in InFlight /\ r.op = "deleteMovie" /\ r.pc = "handler"
    /\ favorites' = [f \in {g \in DOMAIN favorites : favorites[g].movie # r.in.id} |->
                        favorites[f]]
    /\ req' = Replace(req, r, [r EXCEPT !.pc = "delete"])
    /\ UNCHANGED <<rev, users, nextId, now, issued, minted, started, movies, mailed>>

(* deleteMovie: Movie.findOneAndDelete({ _id, user: userId }) and the       *)
(* response                                                                *)
deleteMovie(r) ==
    /\ r \in InFlight /\ r.op = "deleteMovie" /\ r.pc = "delete"
    /\ IF OwnedBy(movies, r.in.id, r.user.id)
       THEN /\ movies' = [m \in DOMAIN movies \ {r.in.id} |-> movies[m]]
            /\ req' = Replace(req, r, Done(r, "ok", Response(200, "Movie Deleted"))
                                       @@ [movie |-> r.in.id])
       ELSE /\ req' = Replace(req, r, Done(r, "notfound",
                        Response(404, "Movie not found or not authorized")))
            /\ UNCHANGED movies
    /\ UNCHANGED <<rev, users, nextId, now, issued, minted, started, favorites, mailed>>

(* watchMovie.  The route mounts no verifyToken, so req.user is undefined  *)
(* whatever token the request carries                                      *)
watchMovie(tok, id) ==
    /\ Accepting
    /\ LET r == [op |-> "watchMovie", pc |-> "find"]
           userId == Undefined
       IN req' = Add(req,
            IF id \notin DOMAIN movies
            THEN Done(r, "notfound", Response(404, "Movie not found"))
            ELSE IF ~movies[id].isPublic /\ movies[id].user # userId
            THEN Done(r, "private", Response(403, "This video is private"))
            ELSE Done(r, "ok", [status |-> 200, videoUrl |-> movies[id].videoUrl]))
    /\ started' = started + 1
    /\ UNCHANGED <<rev, users, nextId, now, issued, minted>>
    /\ UNCHANGED others

----------------------------------------------------------------------------
(* controllers/favoriteController.ts, models/favorite.ts *)

FavoriteTakenIgnoringIndex(store, userId, movieId) == FALSE

(* The unique index { user: 1, movie: 1 } *)
FavoriteTaken(store, userId, movieId) ==
    \E f \in DOMAIN store : store[f].user = userId /\ store[f].movie = movieId

(* addFavorite, up to the answer of Favorite.findOne *)
addFavorite_find(r) ==
    /\ r \in InFlight /\ r.op = "addFavorite" /\ r.pc = "handler"
    /\ req' = Replace(req, r,
            IF r.in.movieId = Undefined
            THEN Done(r, "missing", Response(400, "Missing user or movie ID"))
            ELSE IF \E f \in DOMAIN favorites :
                        /\ favorites[f].user = r.user.id
                        /\ favorites[f].movie = r.in.movieId
            THEN Done(r, "exists", Response(400, "Movie already in favorites"))
            ELSE [r EXCEPT !.pc = "save"])
    /\ UNCHANGED <<rev, users, nextId, now, issued, minted, started>>
    /\ UNCHANGED others

(* addFavorite, from new Favorite(...).save() to the response *)
addFavorite_save(r) ==
    /\ r \in InFlight /\ r.op = "addFavorite" /\ r.pc = "save"
    /\ LET favorite == [user |-> r.user.id, movie |-> r.in.movieId]
       IN IF FavoriteTaken(favorites, favorite.user, favorite.movie)
          THEN /\ req' = Replace(req, r, Done(r, "duplicate",
                            Response(500, "Error adding favorite")))
               /\ UNCHANGED <<favorites, nextId>>
          ELSE /\ favorites' = [f \in DOMAIN favorites \cup {nextId} |->
                                    IF f = nextId THEN favorite ELSE favorites[f]]
               /\ nextId' = nextId + 1
               /\ req' = Replace(req, r, Done(r, "ok",
                            [status |-> 201, message |-> "Added to favorites",
                             favorite |-> favorite]))
    /\ UNCHANGED <<rev, users, now, issued, minted, started, movies, mailed>>

----------------------------------------------------------------------------
(* The revision of authController.ts with the mailed recovery link         *)

(* login of that revision: jwt.sign({ id, email }, JWT_SECRET,             *)
(* { expiresIn: "1h" })                                                    *)
login_1h(body) ==
    /\ Accepting
    /\ LET r == [op |-> "login", pc |-> "find", in |-> body]
           found == findOneByEmail(users, body.email)
       IN IF body.password = Missing
          THEN /\ req' = Add(req, Done(r, "missing",
                            Response(400, "Email and password are required")))
               /\ UNCHANGED <<issued, minted>>
          ELSE IF found = {}
          THEN /\ req' = Add(req, Done(r, "nouser", Response(401, "Invalid credentials")))
               /\ UNCHANGED <<issued, minted>>
          ELSE LET u == CHOOSE x \in found : TRUE
                   token == [jwtSign(u, users[u].email, now) EXCEPT !.exp = now + HourTTL]
               IN IF ~bcryptCompare(Plain(body.password), users[u].password)
                  THEN /\ req' = Add(req, Done(r, "mismatch", Response(401, "Invalid credentials")))
                       /\ UNCHANGED <<issued, minted>>
                  ELSE /\ issued' = issued \cup {token}
                       /\ minted' = minted \cup {<<token, users[u].tokenVersion>>}
                       /\ req' = Add(req, Done(r, "ok",
                                    [status |-> 200, message |-> "Login successful",
                                     token |-> token]))
    /\ started' = started + 1
    /\ UNCHANGED <<rev, users, nextId, now>>
    /\ UNCHANGED others

(* jwt.sign({ id }, JWT_SECRET, { expiresIn: "15m" }) *)
jwtSignReset(id, at) ==
    [id |-> id, iat |-> at, exp |-> at + RecoveryTTL, sig |-> "ok"]

(* requestPasswordReset: signs the recovery token and mails the link *)
requestPasswordReset(email) ==
    /\ Accepting
    /\ LET r == [op |-> "requestPasswordReset", pc |-> "find"]
           found == findOneByEmail(users, email)
       IN IF found = {}
          THEN /\ req' = Add(req, Done(r, "nouser", Response(404, "User not found")))
               /\ UNCHANGED mailed
          ELSE /\ mailed' = mailed \cup {jwtSignReset(CHOOSE x \in found : TRUE, now)}
               /\ req' = Add(req, Done(r, "ok", Response(200, "Password reset email sent")))
    /\ started' = started + 1
    /\ UNCHANGED <<rev, users, nextId, now, issued, minted, movies, favorites>>

(* The new passwords of POST reset-password *)
NewPasswords == {"Abc@1234", "abc12345"}

(* resetPassword, from jwt.verify to the answer of User.findById *)
resetPassword_find(tok, newPassword) ==
    /\ Accepting
    /\ LET r == [op |-> "resetPassword", pc |-> "save", tok |-> tok,
                 in |-> [newPassword |-> newPassword]]
       IN req' = Add(req,
            IF tok = NoToken \/ ~jwtVerify(tok, now)
            THEN Done(r, "badtoken", Response(400, "Invalid or expired token"))
            ELSE IF tok.id \notin DOMAIN users
            THEN Done(r, "nouser", Response(500, "User not found"))
            ELSE r @@ [user |-> [id |-> tok.id], doc |-> users[tok.id]])
    /\ started' = started + 1
    /\ UNCHANGED <<rev, users, nextId, now, issued, minted>>
    /\ UNCHANGED others

(* resetPassword, from bcrypt.hash to the response: the handler hashes     *)
(* the new password, assigns it and saves                                  *)
resetPassword_save(r) ==
    /\ r \in InFlight /\ r.op = "resetPassword" /\ r.pc = "save"
    /\ LET id == r.user.id
           user == [r.doc EXCEPT !.password = bcryptHash(Plain(r.in.newPassword))]
       IN IF CanSave(users, id, user)
          THEN /\ users' = Saved(users, id, user, {"password"})
               /\ req' = Replace(req, r, Done(r, "ok",
                            Response(200, "Password successfully reset")))
          ELSE /\ req' = Replace(req, r, Done(r, "threw",
                            Response(400, "Invalid or expired token")))
               /\ UNCHANGED users
    /\ UNCHANGED <<rev, nextId, now, issued, started, minted>>
    /\ UNCHANGED others

----------------------------------------------------------------------------
(* The client takes the response; time passes *)

Respond(r) ==
    /\ r \in InFlight /\ r.pc = "done"
    /\ req' = Remove(req, r)
    /\ UNCHANGED <<rev, users, nextId, now, issued, minted, started>>
    /\ UNCHANGED others

(* The clock moves to the next instant at which the validity of an issued  *)
(* token can change: the quarter before it expires, or its expiry          *)
Instants == UNION {{t.exp - 1, t.exp} : t \in issued \cup mailed}

Tick ==
    /\ \E at \in Instants : at > now /\ now' = at
    /\ UNCHANGED <<rev, users, nextId, issued, req, started, minted>>
    /\ UNCHANGED others

----------------------------------------------------------------------------

Init ==
    /\ rev \in Revisions
    /\ users = <<>>
    /\ nextId = 1
    /\ now = 0
    /\ issued = {}
    /\ req = EmptyBag
    /\ started = 0
    /\ minted = {}
    /\ movies = <<>>
    /\ favorites = <<>>
    /\ mailed = {}

Next ==
    \/ \E body \in RegisterBodies : register(body)
    \/ \E r \in InFlight : register_save(r)
    \/ \E body \in LoginBodies : login(body)
    \/ \E op \in GuardedOps, tok \in Presentable :
            \E body \in BodiesOf(op) : verifyToken(op, tok, body)
    \/ \E r \in InFlight : logout(r)
    \/ \E r \in InFlight : verifySession(r)
    \/ \E body \in RegisterBodies : createUser(body)
    \/ \E r \in InFlight : changePassword_find(r)
    \/ \E r \in InFlight : changePassword_save(r)
    \/ \E email \in Emails : verifySecurityQuestion(email)
    \/ \E body \in ResetBodies : resetPasswordWithAnswer_find(body)
    \/ \E r \in InFlight : resetPasswordWithAnswer_save(r)
    \/ \E r \in InFlight : updateUser_check(r)
    \/ \E r \in InFlight : updateUser_update(r)
    \/ \E r \in InFlight : deleteUser(r)
    \/ \E op \in {"register", "login", "question", "reset"} : storeFails(op)
    \/ \E op \in GuardedOps, tok \in Presentable : verifyToken_storeFails(op, tok)
    \/ \E r \in InFlight : handlerStoreFails(r)
    \/ \E r \in InFlight : Respond(r)
    \/ Tick

Spec == Init /\ [][Next]_vars

----------------------------------------------------------------------------
(* The movie and favorite routes, for two users who have an account and a  *)
(* session each                                                            *)

LatestRevision == "r5"

SeededUsers ==
    LET plain(body) == [body EXCEPT !.password = Plain(@), !.securityAnswer = Plain(@)]
        first == Inserted(<<>>, 1, NewUser(plain(Jane("jane@example.com"))))
    IN Inserted(first, 2, NewUser(plain(Jane("bob@example.com"))))

SeededTokens == {jwtSign(u, SeededUsers[u].email, 0) : u \in DOMAIN SeededUsers}

(* The state after createUser for each of the two users and a login of     *)
(* each                                                                    *)
MovieInit ==
    /\ rev = LatestRevision
    /\ users = SeededUsers
    /\ nextId = 3
    /\ now = 0
    /\ issued = SeededTokens
    /\ minted = {<<t, SeededUsers[t.id].tokenVersion>> : t \in SeededTokens}
    /\ req = EmptyBag
    /\ started = 0
    /\ movies = <<>>
    /\ favorites = <<>>
    /\ mailed = {}

MovieNext ==
    \/ \E op \in MovieOps \cup {"deleteUser"}, tok \in Presentable :
            \E body \in BodiesOf(op) : verifyToken(op, tok, body)
    \/ \E r \in InFlight : createMovie(r)
    \/ \E r \in InFlight : updateMovie(r)
    \/ \E r \in InFlight : deleteMovie_pre(r)
    \/ \E r \in InFlight : deleteMovie(r)
    \/ \E tok \in Presentable, id \in DOMAIN movies \cup {NoSuchId} : watchMovie(tok, id)
    \/ \E r \in InFlight : addFavorite_find(r)
    \/ \E r \in InFlight : addFavorite_save(r)
    \/ \E r \in InFlight : deleteUser(r)
    \/ \E r \in InFlight : Respond(r)

MovieSpec == MovieInit /\ [][MovieNext]_vars

----------------------------------------------------------------------------
(* The recovery link, for two users who have an account *)

RecoveryInit ==
    /\ rev = LatestRevision
    /\ users = SeededUsers
    /\ nextId = 3
    /\ now = 0
    /\ issued = {}
    /\ minted = {}
    /\ req = EmptyBag
    /\ started = 0
    /\ movies = <<>>
    /\ favorites = <<>>
    /\ mailed = {}

RecoveryNext ==
    \/ \E body \in LoginBodies \cup {[email |-> "jane@example.com", password |-> Missing]} :
            login_1h(body)
    \/ \E email \in Emails : requestPasswordReset(email)
    \/ \E tok \in Presentable, newPassword \in NewPasswords :
            resetPassword_find(tok, newPassword)
    \/ \E r \in InFlight : resetPassword_save(r)
    \/ \E op \in {"verify", "deleteUser"}, tok \in Presentable :
            verifyToken(op, tok, NoBody)
    \/ \E r \in InFlight : verifySession(r)
    \/ \E r \in InFlight : deleteUser(r)
    \/ \E r \in InFlight : Respond(r)
    \/ Tick

RecoverySpec == RecoveryInit /\ [][RecoveryNext]_vars

----------------------------------------------------------------------------
(* Steps and histories the properties speak about *)

(* The requests that carry the history of their guard call *)
Guarded == {r \in InFlight : "chk" \in DOMAIN r}

(* The guard let the request through to its handler *)
LetThrough(r) == r.pc # "done"

(* This step ends request r with the success response d *)
Succeeds(r, d) ==
    /\ d.pc = "done" /\ d.op = r.op /\ d.why = "ok"
    /\ req' = Replace(req, r, d)

(* This step is the successful end of request r *)
Completes(r) == \E d \in BagToSet(req') : Succeeds(r, d)

VersionOf(store, id) == store[id].tokenVersion

(* The revisions whose password handlers increment tokenVersion *)
Bumping == {"r2", "r5"}

(* This step takes on a request and leaves it in flight as d *)
TakesOn(d) == d \in BagToSet(req') /\ req' = Add(req, d)

(* This step moves request r on, to d *)
Handles(r, d) == d \in BagToSet(req') /\ d # r /\ req' = Replace(req, r, d)

(* This step ends the request, as d, with an error status and no write *)
Rejected(d) == d.pc = "done" /\ d.resp.status >= 400 /\ users' = users

----------------------------------------------------------------------------
(* C1: the guard lets a request through if and only if the token's         *)
(* signature is valid, the token is unexpired and the tokenVersion the     *)
(* token was issued under equals the tokenVersion stored for its user.     *)
C1_GuardIffValid ==
    \A r \in Guarded :
        LetThrough(r) <=> (r.chk.signed /\ r.chk.unexpired /\ r.chk.current)

(* C2: a guard call with a token issued before its user's tokenVersion     *)
(* was raised is answered with SessionExpired, although the token's        *)
(* signature and expiry still verify.                                      *)
C2_StaleTokenSessionExpired ==
    \A r \in Guarded :
        (r.chk.signed /\ r.chk.unexpired /\ r.chk.exists /\ ~r.chk.current)
            => (r.pc = "done" /\ r.why = "expired")

(* C3: a logout that passed the guard raises the stored tokenVersion of    *)
(* the token's user by exactly one.                                        *)
C3_LogoutBumpsVersion ==
    [][\A r \in InFlight :
          (r.op = "logout" /\ r.pc = "handler" /\ Completes(r)
              /\ r.user.id \in DOMAIN users)
            => /\ r.user.id \in DOMAIN users'
               /\ VersionOf(users', r.user.id) = VersionOf(users, r.user.id) + 1]_vars

(* C4: every password change or reset that completes successfully, in a    *)
(* revision that increments tokenVersion, leaves the stored tokenVersion   *)
(* exactly one higher than it was before the write, whatever other         *)
(* requests ran between its read and its write.                            *)
C4_NoLostBump ==
    [][\A r \in InFlight :
          (rev \in Bumping /\ r.op \in {"changePassword", "reset"}
              /\ r.pc = "save" /\ Completes(r))
            => VersionOf(users', r.user.id) = VersionOf(users, r.user.id) + 1]_vars

(* C5: the stored tokenVersion is a natural number, 0 on a record that is  *)
(* created, and no step lowers it.                                         *)
C5_VersionMonotonic ==
    [][\A u \in DOMAIN users' :
          /\ VersionOf(users', u) \in Nat
          /\ u \in DOMAIN users => VersionOf(users', u) >= VersionOf(users, u)
          /\ u \notin DOMAIN users => VersionOf(users', u) = 0]_vars

(* C6: when register succeeds, the stored password and security answer     *)
(* verify against the password and the answer of the request.              *)
C6_RegisteredSecretsVerify ==
    [][\A r \in InFlight :
          (r.op = "register" /\ r.pc = "save" /\ Completes(r))
            => /\ bcryptCompare(Plain(r.in.password), users'[nextId].password)
               /\ bcryptCompare(Plain(r.in.securityAnswer), users'[nextId].securityAnswer)]_vars

(* C7: the password and the security answer of every stored user are       *)
(* hashes, never the raw input.                                            *)
C7_SecretsAreHashed ==
    \A u \in DOMAIN users :
        IsHash(users[u].password) /\ IsHash(users[u].securityAnswer)

(* A password written by changePassword next to secrets written by        *)
(* register                                                                *)
C7_Witness ==
    /\ rev = "r1"
    /\ \E u \in DOMAIN users : users[u].password = bcryptHash(Plain("Abc@1234"))
    /\ \E u \in DOMAIN users : users[u].securityAnswer = bcryptHash(bcryptHash(Plain("Rex")))

(* C8: no two stored users have the same email, compared without regard    *)
(* to case.                                                                *)
C8_EmailUnique ==
    \A u, v \in DOMAIN users :
        u # v => toLowerCase(users[u].email) # toLowerCase(users[v].email)

(* Two registrations of one email both passed the lookup; one was stored   *)
(* and the index turned the other away                                     *)
C8_Witness ==
    \E r1, r2 \in InFlight :
        /\ r1.op = "register" /\ r1.pc = "done" /\ r1.why = "ok"
        /\ r2.op = "register" /\ r2.pc = "done" /\ r2.why = "duplicate"
        /\ Cardinality(DOMAIN users) = 1

(* C9: every register that fails because its email is the email of a       *)
(* stored user is answered with EmailTaken, the loser of two concurrent    *)
(* registrations included.                                                 *)
C9_DuplicateIsEmailTaken ==
    \A r \in InFlight :
        (r.op = "register" /\ r.pc = "done" /\ r.why \in {"taken", "duplicate"})
            => r.resp = Response(400, "Email is already registered")

(* C10: a login that fails because the email is unknown and a login that   *)
(* fails because the password is wrong get the same response.              *)
C10_LoginFailuresAlike ==
    \A r1, r2 \in InFlight :
        (r1.op = "login" /\ r1.pc = "done" /\ r1.why = "nouser"
            /\ r2.op = "login" /\ r2.pc = "done" /\ r2.why = "mismatch")
            => r1.resp = r2.resp

(* C11: the token a successful login hands out verifies at once, and its   *)
(* payload is the id, the email and the stored tokenVersion of its user.   *)
C11_TokenRoundTrip ==
    [][\A d \in BagToSet(req') :
          (TakesOn(d) /\ d.op = "login" /\ "token" \in DOMAIN d.resp)
            => LET t == d.resp.token
               IN /\ jwtVerify(t, now')
                  /\ t.id \in DOMAIN users'
                  /\ jwtDecode(t) = [id           |-> t.id,
                                     email        |-> users'[t.id].email,
                                     tokenVersion |-> users'[t.id].tokenVersion]]_vars

(* C12: a guard call with a validly signed, unexpired token whose user is  *)
(* no longer stored is turned away, and no handler behind the guard takes  *)
(* a step for a user id that has no stored record.                         *)
C12_DeletedUserDenied ==
    [][/\ \A d \in BagToSet(req') :
             (TakesOn(d) /\ "chk" \in DOMAIN d
                 /\ d.chk.signed /\ d.chk.unexpired /\ ~d.chk.exists)
               => (d.pc = "done" /\ d.resp.status \in {401, 403})
       /\ \A r \in Guarded :
             (LetThrough(r) /\ \E d \in BagToSet(req') : Handles(r, d))
               => r.user.id \in DOMAIN users]_vars

(* C13: a changePassword or resetPasswordWithAnswer that replaces the      *)
(* stored password hash of a user leaves, in the same write, a stored      *)
(* tokenVersion that is no longer the one the operation read.              *)
C13_HashAndVersionTogether ==
    [][\A r \in InFlight :
          (r.op \in {"changePassword", "reset"} /\ r.pc = "save" /\ Completes(r)
              /\ users'[r.user.id].password # users[r.user.id].password)
            => users'[r.user.id].tokenVersion # r.doc.tokenVersion]_vars

C15_WeakPasswordRejected ==
    [][/\ \A body \in RegisterBodies :
             (register(body) /\ ~isStrongPassword(body.password))
               => \A d \in BagToSet(req') : TakesOn(d) => Rejected(d)
       /\ \A body \in ResetBodies :
             (resetPasswordWithAnswer_find(body) /\ ~isStrongPassword(body.newPassword))
               => \A d \in BagToSet(req') : TakesOn(d) => Rejected(d)
       /\ \A r \in InFlight :
             (r.op = "changePassword" /\ r.pc = "handler"
                 /\ ~isStrongPassword(r.in.newPassword))
               => \A d \in BagToSet(req') : Handles(r, d) => Rejected(d)]_vars

(* C16: a resetPasswordWithAnswer for an email no stored user has is       *)
(* answered 404 "user not found", one whose answer is not the answer       *)
(* behind the stored hash is answered 400 "wrong answer", and neither      *)
(* writes anything.                                                        *)
C16_ResetFailuresChangeNothing ==
    [][\A body \in ResetBodies : \A d \in BagToSet(req') :
          (resetPasswordWithAnswer_find(body) /\ TakesOn(d))
            => LET owners == {u \in DOMAIN users :
                                users[u].email = toLowerCase(body.email)}
               IN /\ owners = {}
                       => /\ d.pc = "done"
                          /\ d.resp = Response(404, "Usuario no encontrado")
                          /\ users' = users
                  /\ \A u \in owners :
                        users[u].securityAnswer # bcryptHash(Plain(body.answer))
                          => /\ d.pc = "done"
                             /\ d.resp = Response(400, "Respuesta incorrecta")
                             /\ users' = users]_vars

(* A reset with a wrong answer and a reset for an unknown email have both  *)
(* been answered, and the stored password is the one the user was created  *)
(* with                                                                    *)
C16_Witness ==
    /\ \E r \in InFlight :
          r.op = "reset" /\ r.pc = "done" /\ r.resp = Response(400, "Respuesta incorrecta")
    /\ \E r \in InFlight :
          r.op = "reset" /\ r.pc = "done" /\ r.resp = Response(404, "Usuario no encontrado")
    /\ DOMAIN users # {}
    /\ \A u \in DOMAIN users :
          users[u].password = bcryptHash(Plain("Strong@123")) /\ users[u].tokenVersion = 0

(* C17: a logout request that carries no token is answered with success    *)
(* and writes nothing.                                                     *)
C17_LogoutWithoutToken ==
    [][\A d \in BagToSet(req') :
          (verifyToken("logout", NoToken, NoBody) /\ TakesOn(d))
            => /\ d.resp.status = 200
               /\ users' = users]_vars

(* C18: verifySecurityQuestion answers 200 with the stored security        *)
(* question when the email is a stored user's, 200 with a null question    *)
(* when it is nobody's, and writes nothing.                                *)
C18_QuestionNeutral ==
    [][\A email \in Emails : \A d \in BagToSet(req') :
          (verifySecurityQuestion(email) /\ TakesOn(d))
            => LET owners == {u \in DOMAIN users : users[u].email = toLowerCase(email)}
                   question == IF "securityQuestion" \in DOMAIN d.resp
                               THEN d.resp.securityQuestion
                               ELSE IF "question" \in DOMAIN d.resp
                               THEN d.resp.question
                               ELSE "absent"
               IN /\ d.resp.status = 200
                  /\ owners = {} => question = Null
                  /\ \A u \in owners : question = users[u].securityQuestion
                  /\ users' = users]_vars

(* C19: no response carries the password hash or the security-answer hash  *)
(* of a stored user.                                                       *)
C19_NoHashInResponse ==
    \A r \in InFlight :
        (r.pc = "done" /\ "user" \in DOMAIN r.resp)
            => DOMAIN r.resp.user \cap {"password", "securityAnswer"} = {}

(* C20: the clock never runs backwards, and a guard call made with a       *)
(* token at or after the token's expiry is answered 403 "invalid or        *)
(* expired token", whatever is stored for the token's user.                *)
C20_ExpiredTokenRejected ==
    [][/\ now' >= now
       /\ \A d \in BagToSet(req') :
             (TakesOn(d) /\ "chk" \in DOMAIN d /\ ~d.chk.unexpired)
               => /\ d.pc = "done"
                  /\ d.resp = Response(403, "Invalid or expired token")]_vars

(* A guard call at the very instant of expiry, with a token the server     *)
(* signed, for a stored user whose tokenVersion was raised after the       *)
(* token was issued                                                        *)
C20_Witness ==
    /\ issued # {}
    /\ \A t \in issued : now = t.exp
    /\ \E r \in Guarded :
          /\ r.pc = "done"
          /\ r.chk.signed /\ ~r.chk.unexpired /\ r.chk.exists /\ ~r.chk.current

(* C21: a request that ended because the store or bcrypt failed while it   *)
(* was handled ended with the status of a server error.                    *)
C21_FaultIsServerError ==
    \A r \in InFlight :
        (r.pc = "done" /\ r.why = "fault") => r.resp.status = 500

(* C22: register turns a password away as too weak exactly when the       *)
(* password has fewer than 8 characters or lacks an uppercase letter, a    *)
(* lowercase letter, a digit or a symbol of @$!%*?&.                       *)
C22_StrengthPolicy ==
    [][\A body \in RegisterBodies : \A d \in BagToSet(req') :
          (register(body) /\ TakesOn(d) /\ body.password # Missing)
            => LET cs == CharsOf(body.password)
                   meets == /\ Len(cs) >= 8
                            /\ HasClass(cs, "U") /\ HasClass(cs, "l")
                            /\ HasClass(cs, "d") /\ HasClass(cs, "s")
               IN (d.pc = "done" /\ d.resp = Response(400, "Password too weak"))
                     <=> ~meets]_vars

(* C28: when changePassword or resetPasswordWithAnswer ends with its       *)
(* success response, the stored password verifies against the new          *)
(* password and against no other password that verified before.            *)
C28_NewPasswordLogsIn ==
    [][\A r \in InFlight :
          (/\ r.op \in {"changePassword", "reset"} /\ r.pc = "save"
           /\ changePassword_save(r) \/ resetPasswordWithAnswer_save(r)
           /\ Completes(r))
            => /\ bcryptCompare(Plain(r.in.newPassword), users'[r.user.id].password)
               /\ \A old \in Passwords \ {r.in.newPassword} :
                     ~bcryptCompare(Plain(old), users'[r.user.id].password)]_vars

(* C29: a step of updateUser leaves every other user's record as it was;   *)
(* in the requester's record it leaves password, securityQuestion,         *)
(* securityAnswer and tokenVersion as they were, and firstName, age and    *)
(* email too unless the request carries them; and when another user holds  *)
(* the requested email the step is a failure that writes nothing.          *)
C29_UpdateUserFrame ==
    [][\A r \in InFlight :
          (r.op = "updateUser" /\ (updateUser_check(r) \/ updateUser_update(r)))
            => LET id == r.user.id
                   present == {k \in DOMAIN r.in : r.in[k] # Missing}
               IN /\ DOMAIN users' = DOMAIN users
                  /\ \A u \in DOMAIN users \ {id} : users'[u] = users[u]
                  /\ id \in DOMAIN users =>
                        /\ \A path \in AllPaths \ allowedUpdates :
                              users'[id][path] = users[id][path]
                        /\ \A path \in AllPaths \ present :
                              users'[id][path] = users[id][path]
                  /\ (/\ r.in.email # Missing
                      /\ \E u \in DOMAIN users \ {id} :
                            users[u].email = toLowerCase(r.in.email))
                        => /\ users' = users
                           /\ \A d \in BagToSet(req') : Handles(r, d) => Rejected(d)]_vars

(* An update of firstName has succeeded and the requester's password is    *)
(* the one the account was created with                                    *)
C29_Witness ==
    \E d \in InFlight : \E u \in DOMAIN users :
        /\ d.op = "updateUser" /\ d.pc = "done" /\ d.why = "ok"
        /\ d.resp.user.firstName = "Janet"
        /\ users[u].firstName = "Janet"
        /\ bcryptCompare(Plain("Strong@123"), users[u].password)

(* C23: when deleteUser ends with its success response, no Favorite        *)
(* record refers to the deleted user.                                      *)
C23_DeleteUserCascades ==
    [][\A r \in InFlight :
          (r.op = "deleteUser" /\ deleteUser(r) /\ Completes(r))
            => \A f \in DOMAIN favorites' : favorites'[f].user # r.user.id]_vars

(* C24: when no deleteMovie and no addFavorite is under way, every         *)
(* Favorite record references a stored movie: none references a movie      *)
(* that deleteMovie has removed.                                           *)
C24_DeleteMovieCascades ==
    (\A r \in InFlight : r.op \in {"deleteMovie", "addFavorite"} => r.pc = "done")
        => \A f \in DOMAIN favorites : favorites[f].movie \in DOMAIN movies

(* C25: no two Favorite records have the same user and the same movie.     *)
C25_OneFavoritePerPair ==
    \A f, g \in DOMAIN favorites :
        (favorites[f].user = favorites[g].user /\ favorites[f].movie = favorites[g].movie)
            => f = g

(* Two addFavorite calls of one user for one movie both passed the         *)
(* existence check; one was answered 201 and the other one 500             *)
C25_Witness ==
    \E a, b \in InFlight :
        /\ a.op = "addFavorite" /\ a.pc = "done" /\ a.why = "ok"
        /\ b.op = "addFavorite" /\ b.pc = "done" /\ b.why = "duplicate"
        /\ Cardinality(DOMAIN favorites) = 1

(* C26: a step of updateMovie or deleteMovie for a stored movie that the   *)
(* requester does not own leaves the movies and the favorites as they      *)
(* were, and when it answers the answer is 404.                            *)
C26_OnlyOwnerModifies ==
    [][\A r \in InFlight :
          (/\ r.op \in {"updateMovie", "deleteMovie"}
           /\ updateMovie(r) \/ deleteMovie_pre(r) \/ deleteMovie(r)
           /\ r.in.id \in DOMAIN movies
           /\ movies[r.in.id].user # r.user.id)
            => /\ movies' = movies
               /\ favorites' = favorites
               /\ \A d \in BagToSet(req') :
                     (Handles(r, d) /\ d.pc = "done") => d.resp.status = 404]_vars

(* C27: watchMovie answers with the video URL exactly when the movie is    *)
(* stored and is public or belongs to the user of a valid token the        *)
(* request carries; otherwise it does not answer 200.                      *)
C27_WatchIffVisible ==
    [][\A tok \in Presentable : \A id \in DOMAIN movies \cup {NoSuchId} :
          \A d \in BagToSet(req') :
            (watchMovie(tok, id) /\ TakesOn(d))
              => ((d.resp.status = 200 /\ d.resp.videoUrl = movies[id].videoUrl)
                    <=> /\ id \in DOMAIN movies
                        /\ \/ movies[id].isPublic
                           \/ /\ tok # NoToken /\ jwtVerify(tok, now)
                              /\ tok.id \in DOMAIN users
                              /\ movies[id].user = tok.id)]_vars

(* C30: resetPassword writes a password only for a token that              *)
(* requestPasswordReset mailed for that user, and the guard lets no        *)
(* request through that carries a token requestPasswordReset mailed.       *)
C30_RecoveryTokensScoped ==
    [][/\ \A r \in InFlight :
            (r.op = "resetPassword" /\ resetPassword_save(r) /\ users' # users)
              => (r.tok \in mailed /\ r.tok.id = r.user.id)
       /\ \A op \in {"verify", "deleteUser"} : \A tok \in mailed :
            \A d \in BagToSet(req') :
              (verifyToken(op, tok, NoBody) /\ TakesOn(d)) => ~LetThrough(d)]_vars

====
